---- MODULE Spec2Model ----
(***************************************************************************)
(* Model of the argument-graph verifiers of wassname/argument-formats:     *)
(*   src/verify_argdown.py                  (Argdown JSON export format)   *)
(*   src/alternatives/jsonschema/verify.py  (premise-conclusion format)    *)
(*                                                                         *)
(* One behaviour is one run of a verifier's main() on one parsed document. *)
(* The document is drawn in Init; every action is one statement of main(). *)
(*                                                                         *)
(* Credences are held in hundredths (0.44 is 44).  For the credences drawn *)
(* here (even hundredths) the double-precision results of cb < ca,         *)
(* ca + cb > 1.0 and abs(ca + cb - 1.0) > 0.05 equal the exact ones; only  *)
(* an exact sum of 0.95 or 1.05 is decided by rounding, and no drawn pair  *)
(* has such a sum.                                                         *)
(***************************************************************************)
EXTENDS Integers, Sequences, FiniteSets, TLC

VARIABLES fmt, data, statements, relations, all_errors, notes, pc, exit_code

vars == <<fmt, data, statements, relations, all_errors, notes, pc, exit_code>>

(***************************************************************************)
(* Bounds of the drawn documents.                                          *)
(***************************************************************************)
MaxCredRels == 2
MaxListLen == 2
MaxGraphRels == 3
MaxInfs == 2
MaxFrom == 2
MaxPCRels == 2

(***************************************************************************)
(* Values.                                                                 *)
(***************************************************************************)
None == -1
NoMath == "None"
\* CONTRADICTION_TOLERANCE = 0.05, in hundredths
CONTRADICTION_TOLERANCE == 5
One == 100

Range(s) == {s[i] : i \in 1..Len(s)}

SeqsUpTo(S, n) == UNION {[1..k -> S] : k \in 0..n}

RECURSIVE Flatten(_)
Flatten(ls) == IF ls = <<>> THEN <<>> ELSE Head(ls) \o Flatten(Tail(ls))

Count(s, P(_)) == Cardinality({i \in 1..Len(s) : P(s[i])})

Abs(x) == IF x < 0 THEN -x ELSE x

\* A diagnostic string, kept as its category tag and the values it prints.
Diag(cat, kind, subj, vals) ==
    [cat |-> cat, kind |-> kind, subj |-> subj, vals |-> vals]

Rel(f, t, ty) == [from |-> f, to |-> t, relationType |-> ty]

(***************************************************************************)
(* verify_argdown.py : extraction                                          *)
(***************************************************************************)
\* title -> {credence, tag, math, text}, in document order
extract_statements(d) ==
    [i \in 1..Len(d.statements) |->
        [title |-> d.statements[i].title,
         credence |-> d.statements[i].credence,
         math |-> d.statements[i].math]]

\* a key that leaves the relation type out
RelKey_noType(rel) == <<rel.from, rel.to>>

RelKey(rel) == <<rel.from, rel.to, rel.relationType>>

\* the "if key not in seen" test of both loops
Unseen(key, seen) == key \notin seen

\* one "for rel in ...relations" loop, threading seen and relations
RECURSIVE AppendUnseen(_, _, _)
AppendUnseen(rels, seen, out) ==
    IF rels = <<>> THEN [seen |-> seen, out |-> out]
    ELSE LET rel == Head(rels)
             key == RelKey(rel)
         IN IF Unseen(key, seen)
            THEN AppendUnseen(Tail(rels), seen \cup {key}, Append(out, rel))
            ELSE AppendUnseen(Tail(rels), seen, out)

extract_relations(d) ==
    LET s == AppendUnseen(
                Flatten([i \in 1..Len(d.statements) |-> d.statements[i].relations]),
                {}, <<>>)
    IN AppendUnseen(
          Flatten([i \in 1..Len(d.arguments) |-> d.arguments[i].relations]),
          s.seen, s.out).out

(***************************************************************************)
(* verify_argdown.py : check_credence_consistency                          *)
(***************************************************************************)
\* statements.get(title, {}).get("credence")
CredenceOf(stmts, title) ==
    IF \E i \in 1..Len(stmts) : stmts[i].title = title
    THEN LET i == CHOOSE i \in 1..Len(stmts) : stmts[i].title = title
         IN stmts[i].credence
    ELSE None

\* "if ca is None or cb is None: continue"
Skipped(ca, cb) == ca = None \/ cb = None

\* the comparison with the boundary on the wrong side
EntailsViolated_le(ca, cb) == cb <= ca

\* "if cb < ca"
EntailsViolated(ca, cb) == cb < ca

\* "if total > 1.0"
ContraryViolated(ca, cb) == ca + cb > One

\* the comparison without abs()
ContradictoryViolated_oneSided(ca, cb) == (ca + cb) - One > CONTRADICTION_TOLERANCE

\* "if abs(total - 1.0) > CONTRADICTION_TOLERANCE"
ContradictoryViolated(ca, cb) == Abs((ca + cb) - One) > CONTRADICTION_TOLERANCE

\* the body of the loop over relations: the diagnostics of one relation
RelErrors(stmts, rel) ==
    LET ca == CredenceOf(stmts, rel.from)
        cb == CredenceOf(stmts, rel.to)
        rtype == rel.relationType
    IN IF Skipped(ca, cb) THEN <<>>
       ELSE IF rtype = "entails"
       THEN IF EntailsViolated(ca, cb)
            THEN <<Diag("ENTAILMENT", "", <<rel.from, rel.to>>, <<ca, cb>>)>>
            ELSE <<>>
       ELSE IF rtype = "contrary"
       THEN IF ContraryViolated(ca, cb)
            THEN <<Diag("CONTRARY", "", <<rel.from, rel.to>>, <<ca, cb, ca + cb>>)>>
            ELSE <<>>
       ELSE IF rtype = "contradictory"
       THEN IF ContradictoryViolated(ca, cb)
            THEN <<Diag("CONTRADICTION", "", <<rel.from, rel.to>>, <<ca, cb, ca + cb>>)>>
            ELSE <<>>
       ELSE <<>>

check_credence_consistency(stmts, rels) ==
    Flatten([i \in 1..Len(rels) |-> RelErrors(stmts, rels[i])])

(***************************************************************************)
(* verify_argdown.py : check_math                                          *)
(***************************************************************************)
\* what sympy.sympify makes of the expression strings drawn here
Sympify(expr) ==
    CASE expr = "2 > 1" -> "true"
      [] expr = "2 < 1" -> "false"
      [] expr = "2 + 2" -> "number"
      [] OTHER -> "raises"

\* "if not expr_str: continue"
NoExpr(expr) == expr = NoMath \/ expr = ""

MathErrors(subj, expr) ==
    IF NoExpr(expr) THEN <<>>
    ELSE LET result == Sympify(expr)
         IN CASE result = "true" -> <<>>
              [] result = "false" -> <<Diag("MATH FAIL", "", subj \o <<expr>>, <<>>)>>
              [] result = "number" -> <<Diag("MATH EVAL", "", subj \o <<expr>>, <<>>)>>
              [] OTHER -> <<Diag("MATH ERROR", "", subj \o <<expr>>, <<>>)>>

check_math(stmts) ==
    Flatten([i \in 1..Len(stmts) |-> MathErrors(<<stmts[i].title>>, stmts[i].math)])

(***************************************************************************)
(* Directed graphs as sets of <<u, v>> pairs.                              *)
(***************************************************************************)
NodesOf(E) == {e[1] : e \in E} \cup {e[2] : e \in E}

Distinct(s) == \A i, j \in 1..Len(s) : i # j => s[i] # s[j]

\* every simple directed cycle of E, once per starting node
CyclePaths(E) ==
    {s \in UNION {[1..k -> NodesOf(E)] : k \in 1..Cardinality(NodesOf(E))} :
        /\ Distinct(s)
        /\ \A i \in 1..Len(s) - 1 : <<s[i], s[i + 1]>> \in E
        /\ <<s[Len(s)], s[1]>> \in E}

Rotate(s, k) == [i \in 1..Len(s) |-> s[((i + k - 1) % Len(s)) + 1]]

Rotations(s) == {Rotate(s, k) : k \in 0..Len(s) - 1}

\* nx.simple_cycles(E): each simple cycle once.  networkx decides the order
\* of the cycles and the node each one starts at, so every listing is allowed.
simple_cycles(E) ==
    LET classes == {Rotations(s) : s \in CyclePaths(E)}
        n == Cardinality(classes)
    IN {l \in [1..n -> CyclePaths(E)] :
           \A c \in classes : \E i \in 1..n : l[i] \in c}

RECURSIVE Reach(_, _)
Reach(E, S) ==
    LET T == S \cup {e[2] : e \in {f \in E : f[1] \in S}}
    IN IF T = S THEN S ELSE Reach(E, T)

\* the reachable set with the source left in
descendants_withSource(E, source) == Reach(E, {source})

\* nx.descendants(G, source): nodes reachable from source, source excluded
descendants(E, source) == Reach(E, {source}) \ {source}

(***************************************************************************)
(* verify_argdown.py : check_graph                                         *)
(***************************************************************************)
\* G.add_edge(from, to, type=...) on a DiGraph: one edge per (from, to);
\* a later relation between the same endpoints replaces the type attribute.
LastIndex(rels, u, v) ==
    CHOOSE i \in 1..Len(rels) :
        /\ rels[i].from = u /\ rels[i].to = v
        /\ \A j \in 1..Len(rels) : (rels[j].from = u /\ rels[j].to = v) => j <= i

GraphEdges(rels) == {<<rels[i].from, rels[i].to>> : i \in 1..Len(rels)}

EdgeType(rels, u, v) == rels[LastIndex(rels, u, v)].relationType

\* [(u, v) for u, v, d in G.edges(data=True) if d["type"] == "entails"]
entailment_edges(rels) ==
    {e \in GraphEdges(rels) : EdgeType(rels, e[1], e[2]) = "entails"}

\* G.degree(title): edges in and out of title
Degree(rels, title) ==
    Cardinality({e \in GraphEdges(rels) : e[1] = title})
    + Cardinality({e \in GraphEdges(rels) : e[2] = title})

top_level(d) ==
    {d.statements[i].title : i \in {j \in 1..Len(d.statements) :
                                        d.statements[j].isUsedAsTopLevelStatement}}

\* the test without the top-level marker
IsIsolated_anyStatement(rels, d, title) == Degree(rels, title) = 0

\* "if G.degree(title) == 0 and title in top_level"
IsIsolated(rels, d, title) == Degree(rels, title) = 0 /\ title \in top_level(d)

IsolatedErrors(stmts, rels, d) ==
    Flatten([i \in 1..Len(stmts) |->
        IF IsIsolated(rels, d, stmts[i].title)
        THEN <<Diag("ISOLATED", "", <<stmts[i].title>>, <<>>)>>
        ELSE <<>>])

CycleErrors(cat, cycles) ==
    [i \in 1..Len(cycles) |-> Diag(cat, "", cycles[i], <<>>)]

\* the lists check_graph may return, one per listing of the cycles
check_graph(stmts, rels, d) ==
    {CycleErrors("ENTAILMENT CYCLE", cycles) \o IsolatedErrors(stmts, rels, d) :
        cycles \in simple_cycles(entailment_edges(rels))}

(***************************************************************************)
(* verify_argdown.py : crux_analysis                                       *)
(***************************************************************************)
\* G.add_edge(from, to) for every relation of type "entails"
CruxEdges(rels) ==
    {<<rels[i].from, rels[i].to>> :
        i \in {j \in 1..Len(rels) : rels[j].relationType = "entails"}}

\* "if downstream > 0"
IsCrux(downstream) == downstream > 0

CruxNotes(rels, s) ==
    IF s.credence = None THEN <<>>
    ELSE IF s.title \notin NodesOf(CruxEdges(rels)) THEN <<>>
    ELSE LET downstream == Cardinality(descendants(CruxEdges(rels), s.title))
         IN IF IsCrux(downstream)
            THEN <<Diag("CRUX", "", <<s.title>>, <<s.credence, downstream>>)>>
            ELSE <<>>

crux_analysis(stmts, rels) ==
    Flatten([i \in 1..Len(stmts) |-> CruxNotes(rels, stmts[i])])

(***************************************************************************)
(* alternatives/jsonschema/verify.py : the checks                          *)
(***************************************************************************)
\* jsonschema's iter_errors is outside the repository: the document carries
\* the number of errors the validator reports for it.
check_schema(d) ==
    [i \in 1..d.schema_errors |-> Diag("SCHEMA", "", <<>>, <<i>>)]

\* the premise ids of every argument of the document
premise_ids_global(arg) ==
    UNION {{data.pcargs[i].premises[k].id : k \in 1..Len(data.pcargs[i].premises)} :
              i \in 1..Len(data.pcargs)}

\* premise_ids = {p["id"] for p in arg["premises"]}
premise_ids(arg) == {arg.premises[i].id : i \in 1..Len(arg.premises)}

\* "if ref not in premise_ids"
MissingRef(ref, ids) == ref \notin ids

\* the loop over one inference's "from" list
InfErrors(arg, inf) ==
    Flatten([k \in 1..Len(inf) |->
        IF MissingRef(inf[k], premise_ids(arg))
        THEN <<Diag("REF", "", <<arg.name, inf[k]>>, <<>>)>>
        ELSE <<>>])

ArgRefErrors(arg) ==
    Flatten([j \in 1..Len(arg.inferences) |-> InfErrors(arg, arg.inferences[j])])

check_refs(d) ==
    Flatten([i \in 1..Len(d.pcargs) |-> ArgRefErrors(d.pcargs[i])])

pc_check_math(d) ==
    Flatten([i \in 1..Len(d.pcargs) |->
        Flatten([j \in 1..Len(d.pcargs[i].premises) |->
            MathErrors(<<d.pcargs[i].name, d.pcargs[i].premises[j].id>>,
                       d.pcargs[i].premises[j].math)])])

\* G.add_edge(cid, target, relation=rel["type"]) in document order
PcRels(d) ==
    Flatten([i \in 1..Len(d.pcargs) |->
        [j \in 1..Len(d.pcargs[i].relations) |->
            Rel(d.pcargs[i].conclusion, d.pcargs[i].relations[j].target,
                d.pcargs[i].relations[j].type)]])

RECURSIVE DedupSeq(_, _)
DedupSeq(s, seen) ==
    IF s = <<>> THEN <<>>
    ELSE IF Head(s) \in seen THEN DedupSeq(Tail(s), seen)
    ELSE <<Head(s)>> \o DedupSeq(Tail(s), seen \cup {Head(s)})

\* the nodes of G in insertion order: add_node for claims and conclusions,
\* add_edge for the targets it has not seen yet
PcNodeSeq(d) ==
    DedupSeq(d.claims \o
             Flatten([i \in 1..Len(d.pcargs) |->
                <<d.pcargs[i].conclusion>> \o
                [j \in 1..Len(d.pcargs[i].relations) |->
                    d.pcargs[i].relations[j].target]]), {})

\* G.edges(data=True): by source node, then by target, in insertion order
PcEdgeSeq(d) ==
    LET nodes == PcNodeSeq(d)
        pairs == [i \in 1..Len(PcRels(d)) |-> <<PcRels(d)[i].from, PcRels(d)[i].to>>]
    IN Flatten([n \in 1..Len(nodes) |->
          DedupSeq(SelectSeq(pairs, LAMBDA e : e[1] = nodes[n]), {})])

\* "if v not in G.nodes", asked of an edge add_edge has put into G
TargetMissing(d, v) == v \notin Range(PcNodeSeq(d))

\* "if G.out_degree(cid) == 0"
OrphanErrors(d) ==
    Flatten([i \in 1..Len(d.pcargs) |->
        IF {e \in GraphEdges(PcRels(d)) : e[1] = d.pcargs[i].conclusion} = {}
        THEN <<Diag("GRAPH", "orphan", <<d.pcargs[i].name, d.pcargs[i].conclusion>>, <<>>)>>
        ELSE <<>>])

DanglingErrors(d) ==
    Flatten([i \in 1..Len(PcEdgeSeq(d)) |->
        LET e == PcEdgeSeq(d)[i]
        IN IF TargetMissing(d, e[2])
           THEN <<Diag("GRAPH", "dangling",
                       <<EdgeType(PcRels(d), e[1], e[2]), e[2]>>, <<>>)>>
           ELSE <<>>])

\* supporters = [u for u, v, d in G.in_edges(cid, data=True)
\*               if d["relation"] == "supports"]
supporters(d, cid) ==
    {e \in GraphEdges(PcRels(d)) :
        e[2] = cid /\ EdgeType(PcRels(d), e[1], e[2]) = "supports"}

UnsupportedErrors(d) ==
    Flatten([i \in 1..Len(d.claims) |->
        IF supporters(d, d.claims[i]) = {}
        THEN <<Diag("GRAPH", "unsupported", <<d.claims[i]>>, <<>>)>>
        ELSE <<>>])

\* the lists check_graph may return, one per listing of the cycles
pc_check_graph(d) ==
    {OrphanErrors(d) \o DanglingErrors(d) \o CycleErrors("GRAPH CYCLE", cycles)
        \o UnsupportedErrors(d) :
        cycles \in simple_cycles(GraphEdges(PcRels(d)))}

\* A premise's source is kept as what a probe of its url would give:
\* "none" (no source), "file" (url not http), "ok" (status < 400),
\* "bad" (status >= 400 or the request raised).
SourceErrors(arg, p, verify_urls) ==
    (IF p.tag = "observation" /\ p.source = "none"
     THEN <<Diag("SOURCE", "", <<arg.name, p.id>>, <<>>)>> ELSE <<>>)
    \o
    (IF verify_urls /\ p.source = "bad"
     THEN <<Diag("SOURCE URL", "", <<arg.name, p.id>>, <<>>)>> ELSE <<>>)

check_sources(d, verify_urls) ==
    Flatten([i \in 1..Len(d.pcargs) |->
        Flatten([j \in 1..Len(d.pcargs[i].premises) |->
            SourceErrors(d.pcargs[i], d.pcargs[i].premises[j], verify_urls)])])

\* an exit status that counts the crux notes as issues
ExitStatus_notes(errors) == IF errors # <<>> \/ notes # <<>> THEN 1 ELSE 0

\* "sys.exit(1 if all_errors else 0)"; verify.py exits 1 or runs off the end
ExitStatus(errors) == IF errors # <<>> THEN 1 ELSE 0

(***************************************************************************)
(* The parsed documents a run may be given.                                *)
(***************************************************************************)
Stmt(title, cred, math, top, rels) ==
    [title |-> title, credence |-> cred, math |-> math,
     isUsedAsTopLevelStatement |-> top, relations |-> rels]

Arg(title, rels) == [title |-> title, relations |-> rels]

ExportDoc(stmts, args) ==
    [statements |-> stmts, arguments |-> args, claims |-> <<>>, pcargs |-> <<>>,
     schema_errors |-> 0, verify_urls |-> FALSE]

Premise(id, math, tag, source) ==
    [id |-> id, math |-> math, tag |-> tag, source |-> source]

Target(target, type) == [target |-> target, type |-> type]

PcArg(name, premises, inferences, conclusion, rels) ==
    [name |-> name, premises |-> premises, inferences |-> inferences,
     conclusion |-> conclusion, relations |-> rels]

PcDoc(claims, args, nschema, verify_urls) ==
    [statements |-> <<>>, arguments |-> <<>>, claims |-> claims, pcargs |-> args,
     schema_errors |-> nschema, verify_urls |-> verify_urls]

CredOpt == {None, 0, 40, 44, 50, 56, 60}

MathOpt == {NoMath, "2 > 1", "2 < 1", "2 + 2", "2 +"}

CredRels ==
    {Rel("A", "B", t) : t \in {"entails", "contrary", "contradictory", "supports"}}
    \cup {Rel("B", "A", "entails"), Rel("A", "C", "entails")}

\* two statements with credences, relations of every checked type
DocsCred ==
    {ExportDoc(<<Stmt("A", ca, NoMath, FALSE, rs), Stmt("B", cb, NoMath, FALSE, <<>>)>>,
               <<>>) :
        ca \in CredOpt, cb \in {None, 0, 50}, rs \in SeqsUpTo(CredRels, MaxCredRels)}

DedupRels ==
    {Rel("A", "B", "entails"), Rel("A", "B", "supports"), Rel("B", "A", "entails")}

\* the same relations listed by two statements and by an argument
DocsDedup ==
    {ExportDoc(<<Stmt("A", None, NoMath, FALSE, ra), Stmt("B", None, NoMath, FALSE, rb)>>,
               <<Arg("Arg1", rg)>>) :
        ra \in SeqsUpTo(DedupRels, MaxListLen),
        rb \in SeqsUpTo(DedupRels, 1),
        rg \in SeqsUpTo(DedupRels, 2)}

GraphRels ==
    {Rel("A", "B", "entails"), Rel("B", "C", "entails"), Rel("C", "A", "entails"),
     Rel("A", "B", "supports"), Rel("B", "A", "entails")}

\* three statements, entailment chains and cycles among them, and a relation
\* of another type that may follow them
DocsGraph ==
    {ExportDoc(<<Stmt("A", ca, NoMath, FALSE, rs \o last), Stmt("B", cb, NoMath, FALSE, <<>>),
                 Stmt("C", 50, NoMath, FALSE, <<>>)>>, <<>>) :
        ca \in {None, 50}, cb \in {None, 50}, rs \in SeqsUpTo(GraphRels, MaxGraphRels),
        last \in {<<>>, <<Rel("A", "B", "supports")>>}}

\* math expressions, top-level markers and credences together
DocsMixed ==
    {ExportDoc(<<>>, <<>>)} \cup
    {ExportDoc(<<Stmt("A", cr[1], ma, ta, rs), Stmt("B", cr[2], mb, tb, <<>>)>>, <<>>) :
        cr \in {<<None, None>>, <<60, 40>>}, ma \in MathOpt, mb \in {NoMath, "2 < 1"},
        ta \in BOOLEAN, tb \in BOOLEAN,
        rs \in {<<>>, <<Rel("A", "B", "entails")>>, <<Rel("A", "B", "supports")>>,
                <<Rel("B", "A", "contrary")>>,
                <<Rel("A", "B", "entails"), Rel("B", "A", "entails")>>}}

DocsExport == DocsCred \cup DocsDedup \cup DocsGraph \cup DocsMixed

FromLists == SeqsUpTo({"p1", "p9"}, MaxFrom) \ {<<>>}

Plain(id) == Premise(id, NoMath, "assumption", "none")

\* inferences that name premises of their own and of the other argument
DocsRefs ==
    {PcDoc(<<"c1">>,
           <<PcArg("arg1", ps, infs, "k1", <<Target("c1", "supports")>>)>> \o second,
           0, FALSE) :
        ps \in {<<>>, <<Plain("p1")>>, <<Plain("p1"), Plain("p9")>>},
        infs \in {<<>>} \cup {<<first>> \o more :
                    first \in FromLists,
                    more \in SeqsUpTo({<<"p1">>, <<"p9">>}, MaxInfs - 1)},
        second \in {<<>>,
                    <<PcArg("arg2", <<Plain("p9")>>, <<<<"p9">>>>, "k2",
                            <<Target("c1", "supports")>>)>>,
                    <<PcArg("arg2", <<Plain("p9")>>, <<<<"p1">>>>, "k2",
                            <<Target("c1", "supports")>>)>>}}

PcTargets ==
    {Target(t, "supports") : t \in {"c1", "k1", "k2", "ghost"}}
    \cup {Target("c1", "attacks")}

\* claims, conclusions and the relations between them
DocsPcGraph ==
    {PcDoc(cl, args, n, FALSE) :
        cl \in {<<>>, <<"c1">>}, n \in {0, 1},
        args \in {<<>>}
           \cup {<<PcArg("arg1", <<>>, <<>>, "k1", r1)>> :
                    r1 \in SeqsUpTo(PcTargets, MaxPCRels)}
           \cup {<<PcArg("arg1", <<>>, <<>>, "k1", r1), PcArg("arg2", <<>>, <<>>, "k2", r2)>> :
                    r1 \in SeqsUpTo(PcTargets, MaxPCRels),
                    r2 \in {<<>>, <<Target("k1", "supports")>>, <<Target("c1", "supports")>>,
                            <<Target("ghost", "attacks")>>}}}

\* one premise with a math expression and a source
DocsPcMisc ==
    {PcDoc(<<"c1">>, <<PcArg("arg1", <<Premise("p1", m, tag, src)>>, <<<<"p1">>>>, "k1", r1)>>,
           0, urls) :
        m \in MathOpt, tag \in {"observation", "assumption"},
        src \in {"none", "file", "ok", "bad"}, urls \in BOOLEAN,
        r1 \in {<<>>, <<Target("c1", "supports")>>}}

DocsPc == DocsRefs \cup DocsPcGraph \cup DocsPcMisc

(***************************************************************************)
(* The runs: main() of either verifier, one statement per action.          *)
(***************************************************************************)
Init ==
    /\ \/ fmt = "export" /\ data \in DocsExport
       \/ fmt = "pc" /\ data \in DocsPc
    /\ statements = <<>>
    /\ relations = <<>>
    /\ all_errors = <<>>
    /\ notes = <<>>
    /\ pc = "start"
    /\ exit_code = None

\* statements = extract_statements(data)
ExtractStatements ==
    /\ fmt = "export" /\ pc = "start"
    /\ statements' = extract_statements(data)
    /\ pc' = "extract_relations"
    /\ UNCHANGED <<fmt, data, relations, all_errors, notes, exit_code>>

\* relations = extract_relations(data)
ExtractRelations ==
    /\ fmt = "export" /\ pc = "extract_relations"
    /\ relations' = extract_relations(data)
    /\ pc' = "check_credence_consistency"
    /\ UNCHANGED <<fmt, data, statements, all_errors, notes, exit_code>>

\* all_errors += check_credence_consistency(statements, relations)
CheckCredenceConsistency ==
    /\ fmt = "export" /\ pc = "check_credence_consistency"
    /\ all_errors' = all_errors \o check_credence_consistency(statements, relations)
    /\ pc' = "check_math"
    /\ UNCHANGED <<fmt, data, statements, relations, notes, exit_code>>

\* the math diagnostics put in front of the list
CheckMath_prepend ==
    /\ fmt = "export" /\ pc = "check_math"
    /\ all_errors' = check_math(statements) \o all_errors
    /\ pc' = "check_graph"
    /\ UNCHANGED <<fmt, data, statements, relations, notes, exit_code>>

\* all_errors += check_math(statements)
CheckMath ==
    /\ fmt = "export" /\ pc = "check_math"
    /\ all_errors' = all_errors \o check_math(statements)
    /\ pc' = "check_graph"
    /\ UNCHANGED <<fmt, data, statements, relations, notes, exit_code>>

\* all_errors += check_graph(statements, relations, data)
CheckGraph ==
    /\ fmt = "export" /\ pc = "check_graph"
    /\ \E errors \in check_graph(statements, relations, data) :
          all_errors' = all_errors \o errors
    /\ pc' = "crux_analysis"
    /\ UNCHANGED <<fmt, data, statements, relations, notes, exit_code>>

\* notes = crux_analysis(statements, relations)
CruxAnalysis ==
    /\ fmt = "export" /\ pc = "crux_analysis"
    /\ notes' = crux_analysis(statements, relations)
    /\ pc' = "report"
    /\ UNCHANGED <<fmt, data, statements, relations, all_errors, exit_code>>

\* the printing and sys.exit(1 if all_errors else 0)
Exit ==
    /\ fmt = "export" /\ pc = "report"
    /\ exit_code' = ExitStatus(all_errors)
    /\ pc' = "done"
    /\ UNCHANGED <<fmt, data, statements, relations, all_errors, notes>>

\* all_errors += check_schema(data, schema)
CheckSchema ==
    /\ fmt = "pc" /\ pc = "start"
    /\ all_errors' = all_errors \o check_schema(data)
    /\ pc' = "check_refs"
    /\ UNCHANGED <<fmt, data, statements, relations, notes, exit_code>>

\* all_errors += check_refs(data)
CheckRefs ==
    /\ fmt = "pc" /\ pc = "check_refs"
    /\ all_errors' = all_errors \o check_refs(data)
    /\ pc' = "check_math"
    /\ UNCHANGED <<fmt, data, statements, relations, notes, exit_code>>

\* all_errors += check_math(data)
PcCheckMath ==
    /\ fmt = "pc" /\ pc = "check_math"
    /\ all_errors' = all_errors \o pc_check_math(data)
    /\ pc' = "check_graph"
    /\ UNCHANGED <<fmt, data, statements, relations, notes, exit_code>>

\* all_errors += check_graph(data)
PcCheckGraph ==
    /\ fmt = "pc" /\ pc = "check_graph"
    /\ \E errors \in pc_check_graph(data) : all_errors' = all_errors \o errors
    /\ pc' = "check_sources"
    /\ UNCHANGED <<fmt, data, statements, relations, notes, exit_code>>

\* all_errors += check_sources(data, verify_urls=verify_urls)
CheckSources ==
    /\ fmt = "pc" /\ pc = "check_sources"
    /\ all_errors' = all_errors \o check_sources(data, data.verify_urls)
    /\ pc' = "report"
    /\ UNCHANGED <<fmt, data, statements, relations, notes, exit_code>>

\* "if all_errors: ... sys.exit(1)", else the summary and a normal return
PcExit ==
    /\ fmt = "pc" /\ pc = "report"
    /\ exit_code' = ExitStatus(all_errors)
    /\ pc' = "done"
    /\ UNCHANGED <<fmt, data, statements, relations, all_errors, notes>>

Next ==
    \/ ExtractStatements
    \/ ExtractRelations
    \/ CheckCredenceConsistency
    \/ CheckMath
    \/ CheckGraph
    \/ CruxAnalysis
    \/ Exit
    \/ CheckSchema
    \/ CheckRefs
    \/ PcCheckMath
    \/ PcCheckGraph
    \/ CheckSources
    \/ PcExit

Spec == Init /\ [][Next]_vars

(***************************************************************************)
(* Properties.                                                             *)
(***************************************************************************)
AfterExport(labels) == fmt = "export" /\ pc \in labels

AfterPc(labels) == fmt = "pc" /\ pc \in labels

RelationsExtracted ==
    AfterExport({"check_credence_consistency", "check_math", "check_graph",
                 "crux_analysis", "report", "done"})

ConsistencyDone ==
    AfterExport({"check_math", "check_graph", "crux_analysis", "report", "done"})

GraphDone == AfterExport({"crux_analysis", "report", "done"})

CruxDone == AfterExport({"report", "done"})

RefsDone == AfterPc({"check_math", "check_graph", "check_sources", "report", "done"})

PcGraphDone == AfterPc({"check_sources", "report", "done"})

\* every relation entry of the document in scan order:
\* all statements' lists, then all arguments' lists
RawRelations ==
    Flatten([i \in 1..Len(data.statements) |-> data.statements[i].relations])
    \o Flatten([i \in 1..Len(data.arguments) |-> data.arguments[i].relations])

\* the credence the document gives a title, None when it gives none
DocCredence(title) ==
    IF \E i \in 1..Len(data.statements) : data.statements[i].title = title
    THEN (CHOOSE st \in Range(data.statements) : st.title = title).credence
    ELSE None

NumErrors(cat, subj) ==
    Count(all_errors, LAMBDA e : e.cat = cat /\ e.subj = subj)

\* C1: after check_credence_consistency, every "entails" relation A -> B of
\* the deduplicated list has exactly one ENTAILMENT diagnostic when both
\* credences are assigned and credence(A) > credence(B), and none otherwise
\* (equal, smaller, or an endpoint without credence; 0 is a credence).
C1_Entailment ==
    ConsistencyDone =>
        \A i \in 1..Len(relations) :
            relations[i].relationType = "entails" =>
                LET a == relations[i].from
                    b == relations[i].to
                    ca == DocCredence(a)
                    cb == DocCredence(b)
                IN NumErrors("ENTAILMENT", <<a, b>>) =
                      IF ca # None /\ cb # None /\ ca > cb THEN 1 ELSE 0

C1_Witness ==
    /\ ConsistencyDone
    /\ \E i, j \in 1..Len(relations) :
          /\ relations[i] = Rel("A", "B", "entails")
          /\ relations[j] = Rel("B", "A", "entails")
          /\ DocCredence("A") > 0 /\ DocCredence("B") = 0
          /\ NumErrors("ENTAILMENT", <<"A", "B">>) = 1
          /\ NumErrors("ENTAILMENT", <<"B", "A">>) = 0

ContradictorySums(S) ==
    {i \in 1..Len(relations) :
        /\ relations[i].relationType = "contradictory"
        /\ DocCredence(relations[i].from) # None
        /\ DocCredence(relations[i].to) # None
        /\ DocCredence(relations[i].from) + DocCredence(relations[i].to) \in S}

NumContradiction(i) ==
    NumErrors("CONTRADICTION", <<relations[i].from, relations[i].to>>)

\* C2 as stated: contradictory credence sums of 1.0, 0.94 and 1.06 give no
\* CONTRADICTION diagnostic; sums of 0.90 and 1.10 give one.
C2_Original ==
    ConsistencyDone =>
        /\ \A i \in ContradictorySums({100, 94, 106}) : NumContradiction(i) = 0
        /\ \A i \in ContradictorySums({90, 110}) : NumContradiction(i) >= 1

\* C2 amended: a contradictory credence sum of exactly 1.0 gives no
\* CONTRADICTION diagnostic; sums of 0.94, 1.06, 0.90 and 1.10 each give one
\* (0.94 and 1.06 are 0.06 away from 1.0, outside the 0.05 tolerance).
C2_Tolerance ==
    ConsistencyDone =>
        /\ \A i \in ContradictorySums({100}) : NumContradiction(i) = 0
        /\ \A i \in ContradictorySums({94, 106, 90, 110}) : NumContradiction(i) = 1

C2_Witness ==
    /\ ConsistencyDone
    /\ \E i \in ContradictorySums({94}) : NumContradiction(i) = 1

Titles == {"A", "B", "C"}

HasRel(f, t, ty) == \E i \in 1..Len(relations) : relations[i] = Rel(f, t, ty)

NumCycleErrors(cycle) ==
    Count(all_errors, LAMBDA e : e.cat = "ENTAILMENT CYCLE" /\ e.subj \in Rotations(cycle))

\* C3: after check_graph, whenever the relation list holds A -> B, B -> C and
\* C -> A all of type "entails", exactly one ENTAILMENT CYCLE diagnostic names
\* the cycle A, B, C, whatever else the list holds; and when one of the three
\* edges is there only with another type, no diagnostic names that cycle.
C3_EntailmentCycle ==
    GraphDone =>
        \A a, b, c \in Titles :
            (a # b /\ b # c /\ a # c) =>
                /\ (HasRel(a, b, "entails") /\ HasRel(b, c, "entails")
                      /\ HasRel(c, a, "entails"))
                   => NumCycleErrors(<<a, b, c>>) = 1
                /\ (~HasRel(a, b, "entails") /\ HasRel(b, c, "entails")
                      /\ HasRel(c, a, "entails"))
                   => NumCycleErrors(<<a, b, c>>) = 0

ZeroRelations ==
    /\ RawRelations = <<>>
    /\ \A i \in 1..Len(data.pcargs) : data.pcargs[i].relations = <<>>

ZeroMath ==
    /\ \A i \in 1..Len(data.statements) : data.statements[i].math = NoMath
    /\ \A i \in 1..Len(data.pcargs) :
          \A j \in 1..Len(data.pcargs[i].premises) :
              data.pcargs[i].premises[j].math = NoMath

ZeroCredences ==
    \A i \in 1..Len(data.statements) : data.statements[i].credence = None

Pass == all_errors = <<>> /\ exit_code = 0

\* C4 as stated: a document with zero relations, zero math expressions and
\* zero credences passes, in either format.
C4_Original ==
    (pc = "done" /\ ZeroRelations /\ ZeroMath /\ ZeroCredences) => Pass

\* C4 amended: such a document passes exactly when, in the export format, no
\* statement is marked isUsedAsTopLevelStatement, and, in the
\* premise-conclusion format, it has no claims, no arguments and no schema
\* error.
C4_EmptyPasses ==
    (pc = "done" /\ ZeroRelations /\ ZeroMath /\ ZeroCredences) =>
        (Pass <=>
            IF fmt = "export"
            THEN \A i \in 1..Len(data.statements) :
                    ~data.statements[i].isUsedAsTopLevelStatement
            ELSE data.claims = <<>> /\ data.pcargs = <<>> /\ data.schema_errors = 0)

C4_Witness ==
    /\ pc = "done" /\ fmt = "export"
    /\ ZeroRelations /\ ZeroMath /\ ZeroCredences
    /\ Len(data.statements) = 2
    /\ Pass

\* C5: a finished run has exit status 1 if and only if its diagnostic list is
\* non-empty and 0 otherwise; no CRUX note is in the diagnostic list, so the
\* notes change neither the result nor the exit status.
C5_ExitStatus ==
    pc = "done" =>
        /\ exit_code = (IF all_errors = <<>> THEN 0 ELSE 1)
        /\ \A i \in 1..Len(all_errors) : all_errors[i].cat # "CRUX"
        /\ \A i \in 1..Len(notes) : notes[i] \notin Range(all_errors)

C5_Witness ==
    /\ pc = "done"
    /\ notes # <<>>
    /\ all_errors = <<>>
    /\ exit_code = 0

\* C6: in the premise-conclusion format, after check_graph, every argument
\* relation whose target is neither a claim id nor a conclusion id has a
\* GRAPH diagnostic naming its missing target.
C6_DanglingTarget ==
    PcGraphDone =>
        \A i \in 1..Len(data.pcargs) :
            \A j \in 1..Len(data.pcargs[i].relations) :
                LET target == data.pcargs[i].relations[j].target
                IN (/\ target \notin Range(data.claims)
                    /\ \A k \in 1..Len(data.pcargs) : data.pcargs[k].conclusion # target)
                   => \E e \in Range(all_errors) :
                         e.cat = "GRAPH" /\ e.kind = "dangling" /\ e.subj[2] = target

IsConsistency(e) == e.cat \in {"ENTAILMENT", "CONTRARY", "CONTRADICTION"}

IsMath(e) == e.cat \in {"MATH FAIL", "MATH EVAL", "MATH ERROR"}

IsGraph(e) == e.cat \in {"GRAPH", "GRAPH CYCLE", "ENTAILMENT CYCLE", "ISOLATED"}

\* C7 as stated: in a finished run no consistency diagnostic precedes a math
\* or a graph diagnostic, and no graph diagnostic precedes a math diagnostic.
C7_Original ==
    pc = "done" =>
        \A i, j \in 1..Len(all_errors) :
            i < j =>
                /\ ~(IsConsistency(all_errors[i]) /\ IsMath(all_errors[j]))
                /\ ~(IsConsistency(all_errors[i]) /\ IsGraph(all_errors[j]))
                /\ ~(IsGraph(all_errors[i]) /\ IsMath(all_errors[j]))

\* the place of a diagnostic's category in each format's order
CategoryRank(e) ==
    IF fmt = "export"
    THEN IF IsConsistency(e) THEN 1 ELSE IF IsMath(e) THEN 2 ELSE 3
    ELSE CASE e.cat = "SCHEMA" -> 1
           [] e.cat = "REF" -> 2
           [] IsMath(e) -> 3
           [] IsGraph(e) -> 4
           [] OTHER -> 5

\* C7 amended: the diagnostic list is in a fixed category order that depends
\* on the format: consistency, math, graph in the export format; schema,
\* referential, math, graph, source in the premise-conclusion format.  No
\* graph diagnostic precedes a math diagnostic in either.
C7_CategoryOrder ==
    pc = "done" =>
        \A i, j \in 1..Len(all_errors) :
            i < j =>
                /\ CategoryRank(all_errors[i]) <= CategoryRank(all_errors[j])
                /\ ~(IsGraph(all_errors[i]) /\ IsMath(all_errors[j]))

C7_Witness ==
    /\ pc = "done" /\ fmt = "export"
    /\ Len(all_errors) >= 3
    /\ IsConsistency(all_errors[1])
    /\ \E i \in 2..Len(all_errors) - 1 :
          IsMath(all_errors[i]) /\ IsGraph(all_errors[i + 1])

\* the document's entailment relations, whoever lists them
DocEntails == {<<r.from, r.to>> : r \in {q \in Range(RawRelations) : q.relationType = "entails"}}

\* the other nodes a walk along entailment relations reaches from title
Downstream(title) ==
    {n \in NodesOf(DocEntails) \ {title} :
        \E w \in UNION {[1..k -> NodesOf(DocEntails)] : k \in 2..Cardinality(NodesOf(DocEntails)) + 1} :
            /\ w[1] = title /\ w[Len(w)] = n
            /\ \A i \in 1..Len(w) - 1 : <<w[i], w[i + 1]>> \in DocEntails}

CruxNotesOf(title) == {i \in 1..Len(notes) : notes[i].subj = <<title>>}

\* C8: after crux_analysis, a statement has exactly one CRUX note, carrying
\* its downstream count, if and only if it has a credence, is a node of the
\* entails-only graph and reaches at least one other node along entails
\* edges; it has no note otherwise.  On the chain A -> B -> C with credences
\* set the notes are A with 2 and B with 1, and none for C.
C8_Crux ==
    CruxDone =>
        /\ \A i \in 1..Len(data.statements) :
              LET st == data.statements[i]
                  n == Cardinality(Downstream(st.title))
              IN IF st.credence # None /\ st.title \in NodesOf(DocEntails) /\ n > 0
                 THEN /\ Cardinality(CruxNotesOf(st.title)) = 1
                      /\ \A k \in CruxNotesOf(st.title) :
                            notes[k] = Diag("CRUX", "", <<st.title>>, <<st.credence, n>>)
                 ELSE CruxNotesOf(st.title) = {}
        /\ \A k \in 1..Len(notes) :
              \E i \in 1..Len(data.statements) : notes[k].subj = <<data.statements[i].title>>
        /\ (/\ DocEntails = {<<"A", "B">>, <<"B", "C">>}
            /\ \A t \in Titles : DocCredence(t) # None)
           => notes = <<Diag("CRUX", "", <<"A">>, <<DocCredence("A"), 2>>),
                        Diag("CRUX", "", <<"B">>, <<DocCredence("B"), 1>>)>>

C8_Witness ==
    /\ CruxDone
    /\ DocEntails = {<<"A", "B">>, <<"B", "C">>}
    /\ \A t \in Titles : DocCredence(t) # None
    /\ Len(notes) = 2
    /\ notes[1].vals[2] = 2 /\ notes[2].vals[2] = 1

Triple(r) == <<r.from, r.to, r.relationType>>

\* where the document first lists a triple
FirstIndex(key) ==
    CHOOSE i \in 1..Len(RawRelations) :
        /\ Triple(RawRelations[i]) = key
        /\ \A j \in 1..i - 1 : Triple(RawRelations[j]) # key

\* C9: the extracted relations hold no (from, to, relationType) triple twice,
\* hold every triple of the statements' and arguments' relation lists, and are
\* in order of first occurrence, statements' lists before arguments' lists;
\* relations between the same endpoints that differ in type are both there.
C9_Dedup ==
    RelationsExtracted =>
        /\ \A i, j \in 1..Len(relations) :
              i # j => Triple(relations[i]) # Triple(relations[j])
        /\ {Triple(r) : r \in Range(relations)} = {Triple(r) : r \in Range(RawRelations)}
        /\ \A i, j \in 1..Len(relations) :
              i < j => FirstIndex(Triple(relations[i])) < FirstIndex(Triple(relations[j]))

C9_Witness ==
    /\ RelationsExtracted
    /\ Len(data.arguments) = 1
    /\ data.statements[1].relations = <<Rel("A", "B", "entails"), Rel("A", "B", "supports")>>
    /\ data.arguments[1].relations = <<Rel("B", "A", "entails"), Rel("A", "B", "entails")>>
    /\ relations = <<Rel("A", "B", "entails"), Rel("A", "B", "supports"),
                     Rel("B", "A", "entails")>>

NumRefErrors(name, ref) == NumErrors("REF", <<name, ref>>)

RefIds == {"p1", "p9"}

ArgNames == {data.pcargs[i].name : i \in 1..Len(data.pcargs)}

OwnPremises(i) == {data.pcargs[i].premises[k].id : k \in 1..Len(data.pcargs[i].premises)}

\* the inferences of the document, as <<argument, inference>> indexes
Inferences ==
    UNION {{<<i, j>> : j \in 1..Len(data.pcargs[i].inferences)} : i \in 1..Len(data.pcargs)}

\* the entries of the "from" lists, as <<argument, inference, position>>
FromEntries ==
    UNION {{<<ij[1], ij[2], k>> : k \in 1..Len(data.pcargs[ij[1]].inferences[ij[2]])} :
              ij \in Inferences}

\* C10 as stated: an inference whose "from" list contains an id that is no
\* premise of its argument yields exactly one REF diagnostic naming that id.
C10_Original ==
    RefsDone =>
        \A name \in ArgNames : \A ref \in RefIds :
            NumRefErrors(name, ref) =
                Cardinality({ij \in Inferences :
                    /\ data.pcargs[ij[1]].name = name
                    /\ ref \in Range(data.pcargs[ij[1]].inferences[ij[2]])
                    /\ ref \notin OwnPremises(ij[1])})

\* C10 amended: every occurrence, in an inference's "from" list, of an id
\* that is no premise of the same argument yields exactly one REF diagnostic
\* naming that id; an inference whose ids are all premises of its own
\* argument yields none, and a premise of another argument does not count.
C10_Refs ==
    RefsDone =>
        \A name \in ArgNames : \A ref \in RefIds :
            NumRefErrors(name, ref) =
                Cardinality({e \in FromEntries :
                    /\ data.pcargs[e[1]].name = name
                    /\ data.pcargs[e[1]].inferences[e[2]][e[3]] = ref
                    /\ ref \notin OwnPremises(e[1])})

C10_Witness ==
    /\ RefsDone
    /\ Len(data.pcargs) = 2
    /\ OwnPremises(1) = {"p1"} /\ OwnPremises(2) = {"p9"}
    /\ data.pcargs[1].inferences = <<<<"p1", "p9">>, <<"p1">>>>
    /\ NumRefErrors("arg1", "p9") = 1
    /\ NumRefErrors("arg1", "p1") = 0

====
